---- MODULE Spec2Model ----
(***************************************************************************)
(* VMEC2Booz (src/src/pystell/pybooz.py): the construction run of the      *)
(* VMEC -> Boozer transform and the methods it drives.                     *)
(*                                                                         *)
(* Numbers the transform only moves around (Fourier amplitudes, real-space *)
(* fields) are kept as terms that name where they come from; numbers the   *)
(* control flow or a claim depends on (mode numbers, sizes, indices, the   *)
(* normalisation factors, the grid steps, the Jacobian factor) are exact   *)
(* integers or exact fractions.  Arrays are 0-based functions; a slot of   *)
(* an np.empty array that was never assigned is absent from the function's *)
(* domain.                                                                 *)
(***************************************************************************)
EXTENDS Bags, FiniteSets, Integers, Sequences, TLC

(* ------------------------------ bounds --------------------------------- *)
MaxNs == 3
MaxMboz == 2
MaxNboz == 1
MaxNfp == 2
MaxMpol == 2
MaxNtor == 1
MaxNyq == 1
MaxAcc == 2
MaxNbozMod == 2

(* ------------------------------ state ---------------------------------- *)
VARIABLES
    vmecdata,  \* the scalars and mode arrays of the equilibrium (read-only input)
    nboz, mboz, mnboz,
    rmnc, zmns, lmns,          \* self.rmnc is vmecdata.rmnc (aliased, [surface][mode])
    xmb, xnb, xcnt, problem,   \* xcnt: assignments per slot; problem: "problem" printed
    scl,
    thgrid, ztgrid, gcnt,      \* gcnt: assignments per grid slot
    trig_b, trig_nyq,
    bmncb, rmncb, zmnsb, pmnsb, gmncb,
    jrad, pmns, gpsi, Ipsi,
    r1, z1, rodd, zodd, lt, lz, lam, wt, wz, wp, bmod_b,
    pc, err, steps,
    call, ret, warned, har, stored,
    trigmm, bmodb,             \* self.cosmm/sinmm/cosnn/sinnn, and what modbooz formed
    axis_log, reads            \* history of the construction run: the axis
                               \* corrections done, the amplitude entries read

inVars == <<vmecdata, nboz, mboz, mnboz>>
ampVars == <<rmnc, zmns, lmns>>
xmnbVars == <<xmb, xnb, xcnt, problem>>
gridVars == <<thgrid, ztgrid, gcnt>>
trigVars == <<trig_b, trig_nyq>>
outVars == <<bmncb, rmncb, zmnsb, pmnsb, gmncb>>
curVars == <<pmns, gpsi, Ipsi>>
rzVars == <<r1, z1, rodd, zodd>>
accVars == <<lt, lz, lam>>
wVars == <<wt, wz, wp, bmod_b>>
apiVars == <<call, ret, warned, har, stored>>
mmVars == <<trigmm, bmodb>>
histVars == <<axis_log, reads>>
vars == <<inVars, ampVars, xmnbVars, scl, gridVars, trigVars, outVars, jrad, curVars,
          rzVars, accVars, wVars, pc, err, steps, apiVars, mmVars, histVars>>

(* ------------------------------ helpers -------------------------------- *)
\* a[k] = v on an array whose unassigned slots are outside its domain
Store(a, k, v) == [i \in (DOMAIN a) \cup {k} |-> IF i = k THEN v ELSE a[i]]
Bump(c, k) == [c EXCEPT ![k] = @ + 1]

\* exact fractions, for the values the code holds as floats
Q(n, d) == [num |-> n, den |-> d]
QEq(a, b) == a.num * b.den = b.num * a.den
QLess(a, b) == a.num * b.den < b.num * a.den
QTimes(k, a) == [num |-> k * a.num, den |-> a.den]

Abs(x) == IF x < 0 THEN 0 - x ELSE x
Sign(x) == IF x < 0 THEN 0 - 1 ELSE IF x > 0 THEN 1 ELSE 0

Zero == <<"zero">>
ZeroTable(rows, cols) == [mn \in 0..(rows - 1) |-> [j \in 0..(cols - 1) |-> Zero]]

\* an array whose every element is accumulated by the same vectorised statements:
\* init is FALSE while it still holds np.empty's garbage, terms the addends since
Garbage == [init |-> FALSE, terms |-> EmptyBag]
Zeros == [init |-> TRUE, terms |-> EmptyBag]
Plus(a, t) == [a EXCEPT !.terms = @ (+) SetToBag({t})]

(* ------------------------ sizes (lines 99, 153-179) -------------------- *)
mnboz_of(nb, mb) == nb + 1 + (mb - 1) * (1 + (2 * nb))
nu_boz == 2 * (2 * mboz + 1)
nv_boz == 2 * (2 * nboz + 1)
nu2_b == (nu_boz \div 2) + 1
nv2_b == (nv_boz \div 2) + 1
nu3_b == nu2_b
nunv == nu3_b * nv_boz
ntorsum == <<nboz + 1, 3 * nboz + 2>>

(* --------------------------- setup_xmnb -------------------------------- *)
\* range(self.mboz): the exclusive stop of the m loop
xmnb_mstop(mb) == mb

\* the first n of the inner loop
xmnb_n1_all(m, nb) == 0 - nb
xmnb_n1(m, nb) == IF m = 0 THEN 0 ELSE 0 - nb

\* the toroidal number stored for n
xmnb_xn_unscaled(n, nf) == n
xmnb_xn(n, nf) == n * nf

RECURSIVE xmnb_inner(_, _, _)
xmnb_inner(st, m, n) ==
    IF st.returned \/ n >= nboz + 1 THEN st
    ELSE IF st.mnboz0 >= mnboz THEN [st EXCEPT !.returned = TRUE, !.problem = TRUE]
    ELSE xmnb_inner([st EXCEPT !.xnb = Store(@, st.mnboz0, xmnb_xn(n, vmecdata.nfp)),
                               !.xmb = Store(@, st.mnboz0, m),
                               !.xcnt = Bump(@, st.mnboz0),
                               !.mnboz0 = @ + 1], m, n + 1)

RECURSIVE xmnb_outer(_, _)
xmnb_outer(st, m) ==
    IF st.returned \/ m >= xmnb_mstop(mboz) THEN st
    ELSE xmnb_outer(xmnb_inner(st, m, xmnb_n1(m, nboz)), m + 1)

xmnb_from(xnb0, xmb0, xcnt0) ==
    xmnb_outer([xnb |-> xnb0, xmb |-> xmb0, xcnt |-> xcnt0, mnboz0 |-> 0,
                returned |-> FALSE, problem |-> FALSE], 0)

setup_xmnb == xmnb_from(xnb, xmb, xcnt)

(* ------------------- normalisation (lines 158-161) --------------------- *)
fac == Q(2, (nu2_b - 1) * nv_boz)
scl0_whole(f) == f
scl0(f) == Q(f.num, 2 * f.den)
scl_of(n) == [k \in 0..(n - 1) |-> IF k = 0 THEN scl0(fac) ELSE fac]

(* ------------------------ grid (lines 186-195) ------------------------- *)
\* angles are fractions of a full turn (2*pi)
dzt == Q(1, nv_boz * vmecdata.nfp)
dth_closed == Q(1, 2 * nu3_b)
dth == Q(1, 2 * (nu3_b - 1))

RECURSIVE grid_lz(_, _, _)
grid_lz(st, l, lz_) ==
    IF lz_ >= nv_boz + 1 THEN st
    ELSE grid_lz([st EXCEPT !.thgrid = Store(@, st.lk, QTimes(l - 1, dth)),
                            !.ztgrid = Store(@, st.lk, QTimes(lz_ - 1, dzt)),
                            !.gcnt = Store(@, st.lk,
                                           IF st.lk \in DOMAIN @ THEN @[st.lk] + 1 ELSE 1),
                            !.lk = @ + 1], l, lz_ + 1)

RECURSIVE grid_lt(_, _)
grid_lt(st, l) ==
    IF l >= nu3_b + 1 THEN st
    ELSE grid_lt(grid_lz(st, l, 1), l + 1)

make_grid == grid_lt([thgrid |-> <<>>, ztgrid |-> <<>>, gcnt |-> <<>>, lk |-> 0], 1)

(* ----------------------------- trigfunc -------------------------------- *)
\* A table is kept by the harmonic each assigned column holds: column 0 holds
\* harmonic 0 (cos = 1, sin = 0), column 1 the angle itself, and the recurrence
\* adds the harmonic of column 1 to that of column k-1.
RECURSIVE trig_rec(_, _, _)
trig_rec(tab, k, top) ==
    IF k > top THEN tab
    ELSE trig_rec(Store(tab, k, tab[k - 1] + tab[1]), k + 1, top)

trig_pol(mp) == trig_rec(Store(Store(<<>>, 0, 0), 1, 1), 2, mp)
trig_tor(nt) ==
    IF nt > 1 THEN trig_rec(Store(Store(<<>>, 0, 0), 1, 1), 2, nt)
    ELSE Store(<<>>, 0, 0)

\* cosm[:, 1] does not exist when the table has a single column
trigfunc(mp, nt) ==
    IF mp < 1 THEN [exc |-> "IndexError", m |-> <<>>, n |-> <<>>]
    ELSE [exc |-> "", m |-> trig_pol(mp), n |-> trig_tor(nt)]

NoTrig == [exc |-> "", m |-> <<>>, n |-> <<>>]

(* ------------------- the equilibrium data (input) ---------------------- *)
\* Mode k of a mode set in the solver's order: m = 0 with n = 0..nt, then every
\* further m with n = -nt..nt.
ModeM(k, nt) == IF k <= nt THEN 0 ELSE 1 + ((k - nt - 1) \div (2 * nt + 1))
ModeN(k, nt) == IF k <= nt THEN k ELSE ((k - nt - 1) % (2 * nt + 1)) - nt
ModeCount(mtop, nt) == nt + 1 + mtop * (2 * nt + 1)

VmecData(ns_, nf, mp, nt, my, ny, deg) ==
    [ns |-> ns_, nfp |-> nf, mpol |-> mp, ntor |-> nt, mnyq |-> my, nnyq |-> ny,
     nmn |-> ModeCount(mp - 1, nt),
     xm |-> [k \in 0..(ModeCount(mp - 1, nt) - 1) |-> ModeM(k, nt)],
     xn |-> [k \in 0..(ModeCount(mp - 1, nt) - 1) |-> ModeN(k, nt) * nf],
     nmnnyq |-> ModeCount(my, ny),
     xmnyq |-> [k \in 0..(ModeCount(my, ny) - 1) |-> ModeM(k, ny)],
     xnnyq |-> [k \in 0..(ModeCount(my, ny) - 1) |-> ModeN(k, ny) * nf],
     hiota |-> [j \in 0..(ns_ - 1) |-> 1],
     bsubumnc00 |-> [j \in 0..(ns_ - 1) |-> 1],
     bsubvmnc00 |-> [j \in 0..(ns_ - 1) |-> IF j = deg /\ j >= 1 THEN 0 - 1 ELSE 2]]

AmpTable(name, d) ==
    [j \in 0..(d.ns - 1) |-> [mn \in 0..(d.nmn - 1) |-> <<name, j, mn>>]]

(* ----------------------------- transpmn -------------------------------- *)
\* pmns[mn] for Nyquist mode mn of surface jr
transpmn_pmns_m_only(mn, jr) ==
    IF vmecdata.xmnyq[mn] # 0
        THEN <<"div", <<"bsubumnc", jr, mn>>, vmecdata.xmnyq[mn]>>
    ELSE Zero
transpmn_pmns(mn, jr) ==
    IF vmecdata.xmnyq[mn] # 0
        THEN <<"div", <<"bsubumnc", jr, mn>>, vmecdata.xmnyq[mn]>>
    ELSE IF vmecdata.xnnyq[mn] # 0
        THEN <<"negdiv", <<"bsubvmnc", jr, mn>>, vmecdata.xnnyq[mn]>>
    ELSE Zero

Mode00(mn) == vmecdata.xmnyq[mn] = 0 /\ vmecdata.xnnyq[mn] = 0

transpmn(pmns_, gpsi_, Ipsi_, jr) ==
    [pmns |-> [mn \in 0..(vmecdata.nmnnyq - 1) |-> transpmn_pmns(mn, jr)],
     gpsi |-> IF \E mn \in 0..(vmecdata.nmnnyq - 1) : Mode00(mn)
                  THEN [gpsi_ EXCEPT ![jr] = vmecdata.bsubvmnc00[jr]] ELSE gpsi_,
     Ipsi |-> IF \E mn \in 0..(vmecdata.nmnnyq - 1) : Mode00(mn)
                  THEN [Ipsi_ EXCEPT ![jr] = vmecdata.bsubumnc00[jr]] ELSE Ipsi_]

(* ---------------------------- vcoords_rz ------------------------------- *)
\* the modes of the slice i1:i2 (numpy clips a slice to the array)
rz_slice == {mn \in 0..(vmecdata.nmn - 1) : ntorsum[1] <= mn /\ mn < ntorsum[2]}

\* lines 467-474: tab[0, i1:i2] = 2*tab[1, i1:i2]/sfull[1] - tab[2, i1:i2]/sfull[2]
axis_correct_every_row(tab) ==
    [j \in DOMAIN tab |-> [mn \in DOMAIN tab[j] |->
        IF mn \in rz_slice THEN <<"axis", tab[1][mn], tab[2][mn]>> ELSE tab[j][mn]]]
axis_correct(tab) ==
    [tab EXCEPT ![0] = [mn \in DOMAIN @ |->
        IF mn \in rz_slice THEN <<"axis", tab[1][mn], tab[2][mn]>> ELSE @[mn]]]

\* the surface indices vcoords_rz returns on without doing anything
rz_rejects_negative(js) == js < 0
rz_rejects(js) == js <= 0

rz_modes_all(nparity) == 0..(vmecdata.nmn - 1)
rz_modes(nparity) == {mn \in 0..(vmecdata.nmn - 1) : vmecdata.xm[mn] % 2 = nparity}

\* tab[k, :], a negative k counting from the end as numpy does
RowIx(k) == IF k < 0 THEN k + vmecdata.ns ELSE k
Row(tab, k) == tab[RowIx(k)]

\* the branch of lines 457-474: odd parity on the first surface off the axis
rz_axis_branch(js, nparity) == nparity # 0 /\ ~(js > 1)

\* the entries of rmnc and zmns the mode loop reads (lines 498-499), each with
\* whether an axis correction had been applied by then
rz_reads(js, nparity, after) ==
    {[row |-> RowIx(k), mn |-> mn, after |-> after] :
        k \in {js, js - 1}, mn \in rz_modes(nparity)}

rz_sum(tab, js, nparity, w) ==
    [init |-> TRUE, w |-> w,
     modes |-> [mn \in rz_modes(nparity) |->
                   [hi |-> Row(tab, js)[mn], lo |-> Row(tab, js - 1)[mn]]]]

\* what one call does: exc names the exception raised ("" for none), none says
\* the call returned None, and the rest is the state the call leaves
vcoords_rz(js, r, z, lt_, lz_, lam_, nparity) ==
    LET same == [exc |-> "", none |-> FALSE, r |-> r, z |-> z, lt |-> lt_, lz |-> lz_,
                 lam |-> lam_, rmnc |-> rmnc, zmns |-> zmns, corrected |-> FALSE,
                 reads |-> {}]
        axis == rz_axis_branch(js, nparity)
        lt0 == IF nparity = 0 THEN Zeros ELSE lt_
        lz0 == IF nparity = 0 THEN Zeros ELSE lz_
        lam0 == IF nparity = 0 THEN Zeros ELSE lam_
        rm == IF axis THEN axis_correct(rmnc) ELSE rmnc
        zm == IF axis THEN axis_correct(zmns) ELSE zmns
        w == IF nparity = 0 THEN "one" ELSE IF js > 1 THEN "interp" ELSE "axis"
        add(a) == [a EXCEPT !.terms = @ (+) SetToBag(rz_modes(nparity))]
    IN  IF rz_rejects(js) THEN [same EXCEPT !.none = TRUE]
        ELSE IF js >= vmecdata.ns \/ (axis /\ vmecdata.ns < 3)
            THEN [same EXCEPT !.exc = "IndexError", !.lt = lt0, !.lz = lz0, !.lam = lam0]
        ELSE [exc |-> "", none |-> FALSE,
              r |-> rz_sum(rm, js, nparity, w), z |-> rz_sum(zm, js, nparity, w),
              lt |-> add(lt0), lz |-> add(lz0), lam |-> add(lam0),
              rmnc |-> rm, zmns |-> zm, corrected |-> axis,
              reads |-> rz_reads(js, nparity, axis \/ axis_log # <<>>)]

(* ----------------------------- vcoords_w ------------------------------- *)
w_sum == [init |-> TRUE, terms |-> SetToBag(0..(vmecdata.nmnnyq - 1))]

\* the arrays are filled in place and returned as a tuple of `returns` values
vcoords_w(jr, pmns_, wt_, wz_, w_, bmod_) ==
    [wt |-> w_sum, wz |-> w_sum, w |-> w_sum, bmod |-> w_sum, returns |-> 4]

(* ------------------------------ Init ----------------------------------- *)
NoCall == [fn |-> "", jrad |-> 0, nparity |-> 0]
NoRet == [kind |-> "", n |-> 0]
NoHar == [jacfac |-> 0, finite |-> TRUE]
\* self.cosmm, self.sinmm, self.cosnn, self.sinnn before boozerfun makes them
NoTables == [m |-> <<>>, n |-> <<>>, cosw |-> <<>>, sinw |-> <<>>]

\* what lines 97-143 bind: the arguments, the equilibrium (aliased, not copied),
\* the five zero output tables; cap is mnboz.  The work arrays of the surface
\* loop do not exist yet.
Bound(d, nb, mb, cap) ==
    /\ vmecdata = d /\ nboz = nb /\ mboz = mb /\ mnboz = cap
    /\ rmnc = AmpTable("rmnc", d) /\ zmns = AmpTable("zmns", d)
    /\ lmns = AmpTable("lmns", d)
    /\ bmncb = ZeroTable(cap, d.ns) /\ rmncb = ZeroTable(cap, d.ns)
    /\ zmnsb = ZeroTable(cap, d.ns) /\ pmnsb = ZeroTable(cap, d.ns)
    /\ gmncb = ZeroTable(cap, d.ns)
    /\ jrad = 0 /\ pmns = <<>> /\ gpsi = <<>> /\ Ipsi = <<>>
    /\ r1 = Garbage /\ z1 = Garbage /\ rodd = Garbage /\ zodd = Garbage
    /\ lt = Garbage /\ lz = Garbage /\ lam = Garbage
    /\ wt = Garbage /\ wz = Garbage /\ wp = Garbage /\ bmod_b = Garbage
    /\ err = "" /\ steps = <<>>
    /\ call = NoCall /\ ret = NoRet /\ warned = FALSE /\ har = NoHar /\ stored = <<>>
    /\ trigmm = NoTables /\ bmodb = <<>>
    /\ axis_log = <<>> /\ reads = {}

\* lines 147-148: xnb and xmb are np.empty, and nothing else is set up yet
Unset ==
    /\ xmb = <<>> /\ xnb = <<>> /\ xcnt = [k \in 0..(mnboz - 1) |-> 0]
    /\ problem = FALSE
    /\ scl = <<>>
    /\ thgrid = <<>> /\ ztgrid = <<>> /\ gcnt = <<>>
    /\ trig_b = NoTrig /\ trig_nyq = NoTrig

\* the equilibria a run is given: every number of surfaces, of field periods
\* and every native mode set of the bounds, the fewest and the most Nyquist
\* modes; deg = 1 makes jacfac vanish on surface 1, deg = 0 on none
Equilibria ==
    {VmecData(n, nf, mp, nt, my, ny, deg) :
        n \in 2..MaxNs, nf \in 1..MaxNfp, mp \in 1..MaxMpol, nt \in 0..MaxNtor,
        my \in {0, MaxNyq}, ny \in {0, MaxNyq}, deg \in {0, 1}}

Init ==
    \E d \in Equilibria, nb \in 0..MaxNboz, mb \in 1..MaxMboz :
        /\ Bound(d, nb, mb, mnboz_of(nb, mb))
        /\ Unset
        /\ pc = "setup_xmnb"

(* ----------------- __init__: the set-up (lines 150-211) ---------------- *)
Raise(e) == pc' = "raised" /\ err' = e

SetupXmnb ==
    /\ pc = "setup_xmnb"
    /\ xmb' = setup_xmnb.xmb /\ xnb' = setup_xmnb.xnb /\ xcnt' = setup_xmnb.xcnt
    /\ problem' = setup_xmnb.problem
    /\ pc' = "scale"
    /\ UNCHANGED <<inVars, ampVars, scl, gridVars, trigVars, outVars, jrad, curVars,
                   rzVars, accVars, wVars, err, steps, apiVars,
                   mmVars, histVars>>

SetupScale ==
    /\ pc = "scale"
    /\ scl' = scl_of(mnboz)
    /\ pc' = "grid"
    /\ UNCHANGED <<inVars, ampVars, xmnbVars, gridVars, trigVars, outVars, jrad, curVars,
                   rzVars, accVars, wVars, err, steps, apiVars,
                   mmVars, histVars>>

SetupGrid ==
    /\ pc = "grid"
    /\ thgrid' = make_grid.thgrid /\ ztgrid' = make_grid.ztgrid /\ gcnt' = make_grid.gcnt
    /\ pc' = "trig"
    /\ UNCHANGED <<inVars, ampVars, xmnbVars, scl, trigVars, outVars, jrad, curVars,
                   rzVars, accVars, wVars, err, steps, apiVars,
                   mmVars, histVars>>

\* lines 197-211: the native tables, then the Nyquist tables
SetupTrig ==
    /\ pc = "trig"
    /\ LET b == trigfunc(vmecdata.mpol - 1, vmecdata.ntor)
           q == trigfunc(vmecdata.mnyq, vmecdata.nnyq)
       IN  IF b.exc # ""
               THEN Raise(b.exc) /\ UNCHANGED trigVars
           ELSE IF q.exc # ""
               THEN Raise(q.exc) /\ trig_b' = b /\ UNCHANGED trig_nyq
           ELSE trig_b' = b /\ trig_nyq' = q /\ pc' = "loop" /\ UNCHANGED err
    /\ UNCHANGED <<inVars, ampVars, xmnbVars, scl, gridVars, outVars, jrad, curVars,
                   rzVars, accVars, wVars, steps, apiVars,
                   mmVars, histVars>>

(* --------------- __init__: the surface loop (lines 217-253) ------------ *)
\* for jrad in range(1, self.ns), up to the call of transpmn: gpsi and Ipsi are
\* zeroed, every other work array is a fresh np.empty
SurfaceBegin ==
    /\ pc = "loop"
    /\ IF jrad + 1 < vmecdata.ns
           THEN /\ jrad' = jrad + 1
                /\ pmns' = <<>>
                /\ gpsi' = [j \in 0..(vmecdata.ns - 1) |-> 0]
                /\ Ipsi' = [j \in 0..(vmecdata.ns - 1) |-> 0]
                /\ r1' = Garbage /\ z1' = Garbage /\ rodd' = Garbage /\ zodd' = Garbage
                /\ lt' = Garbage /\ lz' = Garbage /\ lam' = Garbage
                /\ wt' = Garbage /\ wz' = Garbage /\ wp' = Garbage /\ bmod_b' = Garbage
                /\ pc' = "transpmn"
           ELSE /\ pc' = "done"
                /\ UNCHANGED <<jrad, curVars, rzVars, accVars, wVars>>
    /\ UNCHANGED <<inVars, ampVars, xmnbVars, scl, gridVars, trigVars, outVars, err,
                   steps, apiVars,
                   mmVars, histVars>>

Transpmn ==
    /\ pc = "transpmn"
    /\ LET t == transpmn(pmns, gpsi, Ipsi, jrad)
       IN  pmns' = t.pmns /\ gpsi' = t.gpsi /\ Ipsi' = t.Ipsi
    /\ steps' = Append(steps, <<jrad, "transpmn">>)
    /\ pc' = "vcoords_rz0"
    /\ UNCHANGED <<inVars, ampVars, xmnbVars, scl, gridVars, trigVars, outVars, jrad,
                   rzVars, accVars, wVars, err, apiVars,
                   mmVars, histVars>>

\* r, z, lt, lz, lam = self.vcoords_rz(...): unpacking None is a TypeError
RzControl(v, step, next) ==
    IF v.exc # "" THEN Raise(v.exc) /\ UNCHANGED steps
    ELSE IF v.none THEN Raise("TypeError") /\ UNCHANGED steps
    ELSE pc' = next /\ steps' = Append(steps, <<jrad, step>>) /\ UNCHANGED err

\* what a call of the surface loop adds to the run's history: the axis
\* correction it applied, the entries it read
RzHistory(v, js, nparity) ==
    /\ axis_log' = IF v.corrected THEN Append(axis_log, <<js, nparity>>) ELSE axis_log
    /\ reads' = reads \cup v.reads

VcoordsRz0 ==
    /\ pc = "vcoords_rz0"
    /\ LET v == vcoords_rz(jrad, r1, z1, lt, lz, lam, 0)
       IN  /\ RzControl(v, "vcoords_rz0", "vcoords_rz1")
           /\ rmnc' = v.rmnc /\ zmns' = v.zmns
           /\ lt' = v.lt /\ lz' = v.lz /\ lam' = v.lam
           /\ RzHistory(v, jrad, 0)
           /\ IF v.exc = "" /\ ~v.none
                  THEN r1' = v.r /\ z1' = v.z
                  ELSE UNCHANGED <<r1, z1>>
    /\ UNCHANGED <<inVars, lmns, xmnbVars, scl, gridVars, trigVars, outVars, jrad,
                   curVars, rodd, zodd, wVars, apiVars, mmVars>>

VcoordsRz1 ==
    /\ pc = "vcoords_rz1"
    /\ LET v == vcoords_rz(jrad, rodd, zodd, lt, lz, lam, 1)
       IN  /\ RzControl(v, "vcoords_rz1", "vcoords_w")
           /\ rmnc' = v.rmnc /\ zmns' = v.zmns
           /\ lt' = v.lt /\ lz' = v.lz /\ lam' = v.lam
           /\ RzHistory(v, jrad, 1)
           /\ IF v.exc = "" /\ ~v.none
                  THEN rodd' = v.r /\ zodd' = v.z
                  ELSE UNCHANGED <<rodd, zodd>>
    /\ UNCHANGED <<inVars, lmns, xmnbVars, scl, gridVars, trigVars, outVars, jrad,
                   curVars, r1, z1, wVars, apiVars, mmVars>>

\* wt, wz, wp = self.vcoords_w(...): the arrays are filled in place, and a
\* returned tuple that is not of three values is a ValueError
VcoordsW ==
    /\ pc = "vcoords_w"
    /\ LET v == vcoords_w(jrad, pmns, wt, wz, wp, bmod_b)
       IN  /\ wt' = v.wt /\ wz' = v.wz /\ wp' = v.w /\ bmod_b' = v.bmod
           /\ IF v.returns = 3
                  THEN /\ pc' = "harfun"
                       /\ steps' = Append(steps, <<jrad, "vcoords_w">>)
                       /\ UNCHANGED err
                  ELSE Raise("ValueError") /\ UNCHANGED steps
    /\ UNCHANGED <<inVars, ampVars, xmnbVars, scl, gridVars, trigVars, outVars, jrad,
                   curVars, rzVars, accVars, apiVars,
                   mmVars, histVars>>

Next ==
    \/ SetupXmnb \/ SetupScale \/ SetupGrid \/ SetupTrig
    \/ SurfaceBegin \/ Transpmn \/ VcoordsRz0 \/ VcoordsRz1 \/ VcoordsW

Spec == Init /\ [][Next]_vars

\* the same run on a receiver whose declared capacity mnboz is at most what
\* line 99 computes (the case setup_xmnb's capacity test is written for)
InitCap ==
    \E d \in Equilibria, nb \in 0..MaxNboz, mb \in 1..MaxMboz :
        \E cap \in 1..mnboz_of(nb, mb) :
            /\ Bound(d, nb, mb, cap)
            /\ Unset
            /\ pc = "setup_xmnb"

SpecCap == InitCap /\ [][Next]_vars

(* ------------------------------ harfun --------------------------------- *)
\* jacfac is a numpy float: a zero jacfac logs the warning, and 1.0/jacfac is
\* then inf (no exception), so the returned fields are not finite
harfun(gpsi_, ipsi_, js) ==
    LET jacfac == gpsi_[js] + vmecdata.hiota[js] * ipsi_[js]
    IN  [jacfac |-> jacfac, warned |-> (jacfac = 0), finite |-> (jacfac # 0), returns |-> 4]

(* ----------------------------- boozerfun ------------------------------- *)
\* the amplitude of mode mn written to column jr of table `name`: the sum over
\* the grid for m = xmb[mn], n = |xnb[mn]|/nfp and the sign of xnb[mn], times
\* scl[mn]
boozer_entry(name, mn, jr) ==
    <<name, jr, mn, xmb[mn], Abs(xnb[mn]) \div vmecdata.nfp, Sign(xnb[mn]), scl[mn]>>

\* the column of the output tables boozerfun(..., jrad) writes
boozer_column(jr) == jr

boozerfun_table(tab, name, jr) ==
    [mn \in DOMAIN tab |-> [tab[mn] EXCEPT ![boozer_column(jr)] = boozer_entry(name, mn, jr)]]

\* range(self.mboz + 1): the exclusive stop of the half-weight loop
half_mstop_short(mb) == mb
half_mstop(mb) == mb + 1

\* w[lo:hi, m] = 0.5 * w[lo:hi, m], w counting the halvings of each entry
halve(w, lo, hi, m) ==
    [lk \in DOMAIN w |-> IF lo <= lk /\ lk < hi /\ m \in DOMAIN w[lk]
                             THEN [w[lk] EXCEPT ![m] = @ + 1] ELSE w[lk]]

\* lines 666-674 for one of cosmm, sinmm: rows :nv and i:imax of every column
RECURSIVE half_rows(_, _)
half_rows(w, m) ==
    IF m >= half_mstop(mboz) THEN w
    ELSE LET i == nv_boz * (nu2_b - 1)
             imax == i + nv_boz
         IN  half_rows(halve(halve(w, 0, nv_boz, m), i, imax, m), m + 1)

\* what boozerfun leaves in self.cosmm, self.sinmm, self.cosnn, self.sinnn: the
\* harmonics of trigfunc(uang, vang, mboz, nboz), and for every entry of cosmm
\* and sinmm the number of times it was multiplied by 0.5
boozerfun_trig ==
    LET t == trigfunc(mboz, nboz)
        w0 == [lk \in 0..(nunv - 1) |-> [m \in DOMAIN t.m |-> 0]]
    IN  [m |-> t.m, n |-> t.n, cosw |-> half_rows(w0, 0), sinw |-> half_rows(w0, 0)]

(* ------------------------------ modbooz -------------------------------- *)
\* lines 727-762: modbooz's own one-angle tables, kept by the harmonic each
\* assigned entry holds (entry 1 of the toroidal table exists for nboz >= 1)
modbooz_pol == trig_rec(Store(Store(<<>>, 0, 0), 1, 1), 2, mboz)
modbooz_tor ==
    IF nboz >= 1 THEN trig_rec(Store(Store(<<>>, 0, 0), 1, 1), 2, nboz)
    ELSE Store(<<>>, 0, 0)

\* line 766: n = int(self.xnb[mn]) // self.nfp (floor division)
modbooz_n(mn) == xnb[mn] \div vmecdata.nfp

\* line 680: n = int(abs(self.xnb[mn]) / self.nfp)
boozerfun_n(mn) == Abs(xnb[mn]) \div vmecdata.nfp

\* a[k] of an array of len entries, a negative k counting from the end
Wrap(k, len) == IF k < 0 THEN k + len ELSE k

\* what entry k of a table holds
Entry(tab, k) ==
    IF k \in DOMAIN tab THEN [assigned |-> TRUE, harm |-> tab[k]]
    ELSE [assigned |-> FALSE, harm |-> 0]

\* lines 764-770: the entries cost is formed from for mode mn
modbooz_cost(mn) ==
    [m |-> xmb[mn], n |-> modbooz_n(mn), sgn |-> Sign(xnb[mn]),
     pol |-> Entry(modbooz_pol, Wrap(xmb[mn], mboz + 1)),
     tor |-> Entry(modbooz_tor, Wrap(modbooz_n(mn), nboz + 1))]

\* lines 682-685: the entries boozerfun's cost is formed from for mode mn
boozerfun_cost(mn) ==
    [m |-> xmb[mn], n |-> boozerfun_n(mn), sgn |-> Sign(xnb[mn]),
     pol |-> Entry(boozerfun_trig.m, xmb[mn]),
     tor |-> Entry(boozerfun_trig.n, boozerfun_n(mn))]

modbooz == [angles \in 0..3 |-> [mn \in 0..(mnboz - 1) |-> modbooz_cost(mn)]]

(* ---------------------------- write_boozmn ----------------------------- *)
\* table.transpose()
transpose(tab) ==
    [j \in 0..(vmecdata.ns - 1) |-> [mn \in 0..(mnboz - 1) |-> tab[mn][j]]]

\* a[1:, :]
rows_from_0(a) == [k \in 0..(vmecdata.ns - 2) |-> a[k]]
rows_from_1(a) == [k \in 0..(vmecdata.ns - 2) |-> a[k + 1]]

\* range(2, self.ns + 1) stored in a variable of ns-1 entries
jlist_first == 2
jlist_of(n) == [k \in 0..(n - 2) |-> jlist_first + k]

write_boozmn ==
    [radius |-> vmecdata.ns, comput_surfs |-> vmecdata.ns - 1,
     mn_mode |-> mnboz, mn_modes |-> mnboz, pack_rad |-> vmecdata.ns - 1,
     jlist |-> jlist_of(vmecdata.ns),
     ixm_b |-> xmb, inm_b |-> xnb,
     bmnc_b |-> rows_from_1(transpose(bmncb)),
     rmnc_b |-> rows_from_1(transpose(rmncb)),
     zmns_b |-> rows_from_1(transpose(zmnsb)),
     pmns_b |-> rows_from_1(transpose(pmnsb)),
     gmn_b |-> rows_from_1(transpose(gmncb))]

(* --------------------- the methods, called directly -------------------- *)
\* A receiver holds what lines 97-211 assign; a client then calls a method the
\* way __init__ does (same argument arrays, same unpacking of the result).
SetUp ==
    /\ xmb = xmnb_from(<<>>, <<>>, [k \in 0..(mnboz - 1) |-> 0]).xmb
    /\ xnb = xmnb_from(<<>>, <<>>, [k \in 0..(mnboz - 1) |-> 0]).xnb
    /\ xcnt = xmnb_from(<<>>, <<>>, [k \in 0..(mnboz - 1) |-> 0]).xcnt
    /\ problem = FALSE
    /\ scl = scl_of(mnboz)
    /\ thgrid = make_grid.thgrid /\ ztgrid = make_grid.ztgrid /\ gcnt = make_grid.gcnt
    /\ trig_b = trigfunc(vmecdata.mpol - 1, vmecdata.ntor)
    /\ trig_nyq = trigfunc(vmecdata.mnyq, vmecdata.nnyq)

Receiver(d, nb, mb) ==
    /\ Bound(d, nb, mb, mnboz_of(nb, mb))
    /\ SetUp
    /\ pc = "idle"

\* r, z, lt, lz, lam = self.vcoords_rz(j, r, z, lt, lz, lam, nparity=p), with
\* r1/z1 for parity 0 and rodd/zodd for parity 1 as in lines 247-251
CallVcoordsRz ==
    /\ pc = "idle"
    /\ \E j \in (0 - 1)..(vmecdata.ns - 1), p \in {0, 1} :
        /\ \A mn \in rz_modes(p) : CopiesIn(mn, lt.terms) < MaxAcc
        /\ LET v == vcoords_rz(j, IF p = 0 THEN r1 ELSE rodd,
                               IF p = 0 THEN z1 ELSE zodd, lt, lz, lam, p)
               ok == v.exc = "" /\ ~v.none
           IN  /\ call' = [fn |-> "vcoords_rz", jrad |-> j, nparity |-> p]
               /\ ret' = IF v.none THEN [kind |-> "None", n |-> 0]
                         ELSE IF ok THEN [kind |-> "tuple", n |-> 5] ELSE NoRet
               /\ IF v.exc # "" THEN Raise(v.exc)
                  ELSE IF v.none THEN Raise("TypeError")
                  ELSE UNCHANGED <<pc, err>>
               /\ rmnc' = v.rmnc /\ zmns' = v.zmns
               /\ lt' = v.lt /\ lz' = v.lz /\ lam' = v.lam
               /\ r1' = IF ok /\ p = 0 THEN v.r ELSE r1
               /\ z1' = IF ok /\ p = 0 THEN v.z ELSE z1
               /\ rodd' = IF ok /\ p = 1 THEN v.r ELSE rodd
               /\ zodd' = IF ok /\ p = 1 THEN v.z ELSE zodd
    /\ UNCHANGED <<inVars, lmns, xmnbVars, scl, gridVars, trigVars, outVars, jrad,
                   curVars, wVars, steps, warned, har, stored, mmVars, histVars>>

RzReceivers ==
    {d \in Equilibria : d.mpol >= 2 /\ d.mnyq >= 1 /\ d.nnyq = 0 /\ d.nfp = 1
                        /\ d.bsubvmnc00 = [j \in 0..(d.ns - 1) |-> 2]}

InitRz == \E d \in RzReceivers, nb \in 0..MaxNboz : Receiver(d, nb, 1)

SpecRz == InitRz /\ [][CallVcoordsRz]_vars

\* lines 221-226 for surface j: fresh gpsi and Ipsi, then transpmn
CallTranspmn ==
    /\ pc = "idle"
    /\ \E j \in 1..(vmecdata.ns - 1) :
        LET z == [i \in 0..(vmecdata.ns - 1) |-> 0]
            t == transpmn(<<>>, z, z, j)
        IN  /\ pmns' = t.pmns /\ gpsi' = t.gpsi /\ Ipsi' = t.Ipsi
            /\ call' = [fn |-> "transpmn", jrad |-> j, nparity |-> 0]
    /\ ret' = NoRet
    /\ UNCHANGED <<inVars, ampVars, xmnbVars, scl, gridVars, trigVars, outVars, jrad,
                   rzVars, accVars, wVars, pc, err, steps, warned, har, stored,
                   mmVars, histVars>>

\* jacfac, p1, q1, xjac = self.harfun(gpsi, Ipsi, j, ...) as in line 255
CallHarfun ==
    /\ pc = "idle"
    /\ gpsi # <<>>
    /\ \E j \in 1..(vmecdata.ns - 1) :
        LET h == harfun(gpsi, Ipsi, j)
        IN  /\ har' = [jacfac |-> h.jacfac, finite |-> h.finite]
            /\ warned' = (warned \/ h.warned)
            /\ ret' = [kind |-> "tuple", n |-> h.returns]
            /\ call' = [fn |-> "harfun", jrad |-> j, nparity |-> 0]
    /\ UNCHANGED <<inVars, ampVars, xmnbVars, scl, gridVars, trigVars, outVars, jrad,
                   curVars, rzVars, accVars, wVars, pc, err, steps, stored,
                   mmVars, histVars>>

HarReceivers == {d \in Equilibria : d.mpol >= 2 /\ d.mnyq >= 1}

InitHar == \E d \in HarReceivers : Receiver(d, 0, 1)

SpecHar == InitHar /\ [][CallTranspmn \/ CallHarfun]_vars

\* self.boozerfun(bmod_b, r12, z12, p1, q1, xjac, jacfac, j) for a surface of
\* the loop's range, as in line 277
CallBoozerfun ==
    /\ pc = "idle"
    /\ \E j \in 1..(vmecdata.ns - 1) :
        /\ bmncb' = boozerfun_table(bmncb, "bmncb", j)
        /\ rmncb' = boozerfun_table(rmncb, "rmncb", j)
        /\ zmnsb' = boozerfun_table(zmnsb, "zmnsb", j)
        /\ pmnsb' = boozerfun_table(pmnsb, "pmnsb", j)
        /\ gmncb' = boozerfun_table(gmncb, "gmncb", j)
        /\ trigmm' = boozerfun_trig
        /\ call' = [fn |-> "boozerfun", jrad |-> j, nparity |-> 0]
    /\ ret' = [kind |-> "None", n |-> 0]
    /\ UNCHANGED <<inVars, ampVars, xmnbVars, scl, gridVars, trigVars, jrad, curVars,
                   rzVars, accVars, wVars, pc, err, steps, warned, har, stored,
                   bmodb, histVars>>

\* self.write_boozmn(title): the file holds what the tables hold at the call
CallWriteBoozmn ==
    /\ pc = "idle"
    /\ stored' = write_boozmn
    /\ call' = [fn |-> "write_boozmn", jrad |-> 0, nparity |-> 0]
    /\ ret' = [kind |-> "None", n |-> 0]
    /\ pc' = "written"
    /\ UNCHANGED <<inVars, ampVars, xmnbVars, scl, gridVars, trigVars, outVars, jrad,
                   curVars, rzVars, accVars, wVars, err, steps, warned, har,
                   mmVars, histVars>>

OutReceivers ==
    {d \in Equilibria : d.mpol = 2 /\ d.mnyq >= 1 /\ d.nnyq = 0
                        /\ d.bsubvmnc00 = [j \in 0..(d.ns - 1) |-> 2]}

InitOut == \E d \in OutReceivers, nb \in 0..MaxNboz, mb \in 1..MaxMboz : Receiver(d, nb, mb)

SpecOut == InitOut /\ [][CallBoozerfun \/ CallWriteBoozmn]_vars

\* lines 292-313 for surface j: the four sample angles are set and
\* self.modbooz(j) is called; self.cosmm etc. become modbooz's one-angle tables
CallModbooz ==
    /\ pc = "idle"
    /\ \E j \in 1..(vmecdata.ns - 1) :
        call' = [fn |-> "modbooz", jrad |-> j, nparity |-> 0]
    /\ bmodb' = modbooz
    /\ trigmm' = [m |-> modbooz_pol, n |-> modbooz_tor, cosw |-> <<>>, sinw |-> <<>>]
    /\ ret' = [kind |-> "array", n |-> 4]
    /\ UNCHANGED <<inVars, ampVars, xmnbVars, scl, gridVars, trigVars, outVars, jrad,
                   curVars, rzVars, accVars, wVars, pc, err, steps, warned, har, stored,
                   histVars>>

ModReceivers == {d \in Equilibria : d.mpol >= 2 /\ d.mnyq >= 1}

InitMod ==
    \E d \in ModReceivers, nb \in 0..MaxNbozMod, mb \in 1..MaxMboz : Receiver(d, nb, mb)

SpecMod == InitMod /\ [][CallBoozerfun \/ CallModbooz]_vars

(* ======================= properties of the run ========================= *)
Terminated == pc \in {"done", "raised"}
SurfaceSteps ==
    <<"transpmn", "vcoords_rz0", "vcoords_rz1", "vcoords_w", "harfun", "booz_rzhalf",
      "boozerfun", "modbooz">>

\* the steps of surfaces 1..n-1, surface by surface
AllSteps(n) ==
    [i \in 1..((n - 1) * Len(SurfaceSteps)) |->
        <<1 + ((i - 1) \div Len(SurfaceSteps)),
          SurfaceSteps[1 + ((i - 1) % Len(SurfaceSteps))]>>]

Tables == <<bmncb, rmncb, zmnsb, pmnsb, gmncb>>
ColumnZero(j) == \A t \in 1..5 : \A mn \in 0..(mnboz - 1) : Tables[t][mn][j] = Zero
ColumnWritten(j) == \A t \in 1..5 : \A mn \in 0..(mnboz - 1) : Tables[t][mn][j] # Zero

\* C1: for every ns >= 2 the run processes surfaces 1..ns-1 in increasing order,
\* each with transpmn, vcoords_rz (parity 0), vcoords_rz (parity 1), vcoords_w,
\* harfun, booz_rzhalf, boozerfun and modbooz completing in that order, and the
\* constructor finishes after surface ns-1: a run that has ended has ended
\* normally with exactly these steps completed.
C1_AllSurfacesProcessed ==
    /\ \E i \in 0..Len(AllSteps(vmecdata.ns)) : steps = SubSeq(AllSteps(vmecdata.ns), 1, i)
    /\ (Terminated /\ trig_nyq # NoTrig)
           => (pc = "done" /\ steps = AllSteps(vmecdata.ns))

\* C2: column 0 of the five output tables keeps its zeros, column jrad is
\* changed only by boozerfun of iteration jrad, and after the run every column
\* 1..ns-1 has been written.
C2_ColumnsWritten ==
    /\ ColumnZero(0)
    /\ \A j \in 1..(vmecdata.ns - 1) :
           ColumnZero(j) \/ (ColumnWritten(j) /\ \E i \in 1..Len(steps) :
                                                     steps[i] = <<j, "boozerfun">>)
    /\ (Terminated /\ trig_nyq # NoTrig)
           => \A j \in 1..(vmecdata.ns - 1) : ColumnWritten(j)

\* C3: for mboz >= 1, nboz >= 0, nfp >= 1, setup_xmnb fills all
\* mnboz = nboz+1+(mboz-1)(1+2*nboz) slots of xmb/xnb, each exactly once and none
\* left unassigned, with pairwise distinct (m, n), m nondecreasing in the index
\* and n >= 0 wherever m = 0.
C3_ModeSetFilled ==
    (pc \notin {"setup_xmnb"}) =>
        /\ mnboz = nboz + 1 + (mboz - 1) * (1 + 2 * nboz)
        /\ DOMAIN xmb = 0..(mnboz - 1) /\ DOMAIN xnb = 0..(mnboz - 1)
        /\ \A k \in 0..(mnboz - 1) : xcnt[k] = 1
        /\ problem = FALSE
        /\ \A k, l \in 0..(mnboz - 1) :
               /\ (k # l) => (xmb[k] # xmb[l] \/ xnb[k] # xnb[l])
               /\ (k <= l) => (xmb[k] <= xmb[l])
        /\ \A k \in 0..(mnboz - 1) : (xmb[k] = 0) => (xnb[k] >= 0)

C3_Witness == pc = "scale" /\ mboz >= 2 /\ nboz >= 1 /\ vmecdata.nfp = 2

\* the pairs (m, n*nfp) for m = 0..mtop in the order m outer, n ascending inner,
\* with n = 0..nboz for m = 0 and n = -nboz..nboz otherwise
Enumerated(mtop) ==
    /\ DOMAIN xmb = 0..(ModeCount(mtop, nboz) - 1)
    /\ DOMAIN xnb = 0..(ModeCount(mtop, nboz) - 1)
    /\ \A k \in 0..(ModeCount(mtop, nboz) - 1) :
           /\ xmb[k] = ModeM(k, nboz)
           /\ xnb[k] = ModeN(k, nboz) * vmecdata.nfp

\* C4 as stated: m runs over every integer from 0 to mboz.
C4_UpToMboz == (pc \notin {"setup_xmnb"}) => Enumerated(mboz)

\* C4 as amended: setup_xmnb enumerates m over every integer from 0 to mboz-1;
\* for m = 0 n runs over 0..nboz and for every other m over -nboz..nboz, entries
\* are appended m outer, n ascending inner, and the stored toroidal number is
\* n*nfp.
C4_UpToMbozMinus1 == (pc \notin {"setup_xmnb"}) => Enumerated(mboz - 1)

C4_Witness == pc = "scale" /\ mboz = 2 /\ nboz = 1 /\ vmecdata.nfp = 2 /\ xnb[2] = 0 - 2

\* C5: scl[k] is 2/((nu2_b-1)*nv_boz) when mode k is not the (m=0, n=0) mode and
\* half of that when it is; index 0 is the (0, 0) mode and the only one.
C5_Normalisation ==
    (pc \notin {"setup_xmnb", "scale"}) =>
        /\ DOMAIN scl = 0..(mnboz - 1)
        /\ \A k \in 0..(mnboz - 1) :
               /\ (xmb[k] = 0 /\ xnb[k] = 0) <=> (k = 0)
               /\ IF xmb[k] = 0 /\ xnb[k] = 0
                      THEN QEq(scl[k], Q(1, (nu2_b - 1) * nv_boz))
                      ELSE QEq(scl[k], Q(2, (nu2_b - 1) * nv_boz))
               /\ (k >= 1) => (QEq(QTimes(2, scl[0]), scl[k]) /\ QEq(scl[k], scl[1]))

C5_Witness == pc = "grid" /\ mnboz >= 4 /\ scl[0] # scl[1]

\* C6: the grid has exactly nunv = nu3_b*nv_boz points, each written once, in
\* theta-outer order: thgrid[lk] is step (lk div nv_boz) of pi/(nu3_b-1) and
\* ztgrid[lk] step (lk mod nv_boz) of 2*pi/(nv_boz*nfp); theta runs from 0 to pi
\* inclusive and zeta from 0 up to but excluding 2*pi/nfp.
C6_Grid ==
    (pc \notin {"setup_xmnb", "scale", "grid"}) =>
        /\ DOMAIN thgrid = 0..(nunv - 1) /\ DOMAIN ztgrid = 0..(nunv - 1)
        /\ DOMAIN gcnt = 0..(nunv - 1)
        /\ \A lk \in 0..(nunv - 1) :
               /\ gcnt[lk] = 1
               /\ QEq(thgrid[lk], Q(lk \div nv_boz, 2 * (nu3_b - 1)))
               /\ QEq(ztgrid[lk], Q(lk % nv_boz, nv_boz * vmecdata.nfp))
               /\ QLess(ztgrid[lk], Q(1, vmecdata.nfp))
               /\ ~QLess(Q(1, 2), thgrid[lk])
        /\ QEq(thgrid[0], Q(0, 1)) /\ QEq(thgrid[nunv - 1], Q(1, 2))
        /\ QEq(ztgrid[0], Q(0, 1))
        /\ (pc = "trig") =>
               \A a, b \in 0..(nunv - 1) :
                   (a < b) => ~(QEq(thgrid[a], thgrid[b]) /\ QEq(ztgrid[a], ztgrid[b]))

C6_Witness == pc = "trig" /\ nunv >= 24 /\ vmecdata.nfp = 2 /\ nboz >= 1

jacfac_of(j) == vmecdata.bsubvmnc00[j] + vmecdata.hiota[j] * vmecdata.bsubumnc00[j]

\* C8: a surface jrad whose jacfac is zero does not abort the surface loop: the
\* remaining steps of surface jrad and the surfaces jrad+1..ns-1 are processed.
C8_DegenerateContinues ==
    (Terminated /\ trig_nyq # NoTrig /\ \E j \in 1..(vmecdata.ns - 1) : jacfac_of(j) = 0)
        => (pc = "done" /\ steps = AllSteps(vmecdata.ns))

C10_StoredTables ==
    (pc = "written") =>
        /\ stored.radius = vmecdata.ns /\ stored.comput_surfs = vmecdata.ns - 1
        /\ stored.mn_mode = mnboz /\ stored.pack_rad = vmecdata.ns - 1
        /\ DOMAIN stored.jlist = 0..(vmecdata.ns - 2)
        /\ \A k \in 0..(vmecdata.ns - 2) :
               /\ stored.jlist[k] = k + 2
               /\ DOMAIN stored.bmnc_b = 0..(vmecdata.ns - 2)
               /\ DOMAIN stored.bmnc_b[k] = 0..(mnboz - 1)
               /\ \A mn \in 0..(mnboz - 1) :
                      /\ stored.bmnc_b[k][mn] = bmncb[mn][stored.jlist[k] - 1]
                      /\ stored.rmnc_b[k][mn] = rmncb[mn][k + 1]
                      /\ stored.zmns_b[k][mn] = zmnsb[mn][k + 1]
                      /\ stored.pmns_b[k][mn] = pmnsb[mn][k + 1]
                      /\ stored.gmn_b[k][mn] = gmncb[mn][k + 1]

C10_Witness ==
    /\ pc = "written" /\ vmecdata.ns = 3 /\ mnboz >= 4
    /\ ColumnWritten(2) /\ ColumnZero(1)

(* ==================== properties of the trig tables ==================== *)
\* a table of columns 0..top all assigned, column k holding harmonic k
Harmonics(tab, top) == DOMAIN tab = 0..top /\ \A k \in 0..top : tab[k] = k

\* C11: the tables trigfunc returns hold, for every harmonic k from 0 to the
\* table's maximum mode, the k-th harmonic of the angle (theta for the poloidal
\* tables, nfp*zeta for the toroidal ones): column 0 is harmonic 0, column 1 the
\* direct evaluation, column k >= 2 comes from columns k-1 and 1, and every
\* returned column has been assigned, for every mpol >= 1 and ntor >= 0.
C11_TrigHarmonics ==
    /\ (trig_b # NoTrig /\ trig_b.exc = "")
           => /\ Harmonics(trig_b.m, vmecdata.mpol - 1)
              /\ Harmonics(trig_b.n, vmecdata.ntor)
    /\ (trig_nyq # NoTrig /\ trig_nyq.exc = "")
           => /\ Harmonics(trig_nyq.m, vmecdata.mnyq)
              /\ Harmonics(trig_nyq.n, vmecdata.nnyq)

(* ================== properties of the axis correction ================== *)
\* the native modes whose axis-row entry of tab differs from what the
\* equilibrium came with
Overwritten(tab, name) ==
    {mn \in 0..(vmecdata.nmn - 1) : tab[0][mn] # <<name, 0, mn>>}

\* C12: every read of a native amplitude-table entry that the axis correction
\* overwrites happens after the correction has been applied: once the
\* correction has run, no vcoords_rz call (either parity, any surface) has read
\* the pre-correction value of an entry in the corrected range, for every
\* combination of (mpol, ntor) and (mboz, nboz).
C12_ReadsAfterCorrection ==
    (axis_log # <<>>) =>
        \A rd \in reads :
            (rd.row = 0 /\ rd.mn \in Overwritten(rmnc, "rmnc") \cup Overwritten(zmns, "zmns"))
                => rd.after

\* C13: the set of native mode indices whose amplitudes the axis correction
\* overwrites is exactly the set of native modes with m = 1, for every native
\* (mpol, ntor) and every Boozer (mboz, nboz).
C13_CorrectsM1Modes ==
    (axis_log # <<>>) =>
        /\ Overwritten(rmnc, "rmnc") = {mn \in 0..(vmecdata.nmn - 1) : vmecdata.xm[mn] = 1}
        /\ Overwritten(zmns, "zmns") = {mn \in 0..(vmecdata.nmn - 1) : vmecdata.xm[mn] = 1}

\* C14: during one construction run the axis correction is executed exactly
\* once, in the odd-parity call of vcoords_rz for jrad = 1, and in no
\* even-parity call and no call for a surface jrad >= 2: a run that got through
\* the set-up and has ended has executed it exactly once, and never elsewhere.
C14_AxisOnce ==
    /\ \A i \in 1..Len(axis_log) : axis_log[i] = <<1, 1>>
    /\ Len(axis_log) <= 1
    /\ (Terminated /\ trig_nyq # NoTrig) => (axis_log = << <<1, 1>> >>)

\* C15: throughout a construction run the only entries of the input equilibrium
\* data (aliased, not copied) that are ever modified are axis-surface entries
\* of rmnc and zmns inside the axis-correction mode range: every entry of
\* surfaces >= 1 of rmnc and zmns, every entry of lmns, and the mode-number
\* arrays, hiota and the covariant-field data are unchanged by every step.
C15_OnlyAxisEntriesChange ==
    [][/\ vmecdata' = vmecdata
       /\ lmns' = lmns
       /\ DOMAIN rmnc' = DOMAIN rmnc /\ DOMAIN zmns' = DOMAIN zmns
       /\ \A j \in 0..(vmecdata.ns - 1) : \A mn \in 0..(vmecdata.nmn - 1) :
              (rmnc'[j][mn] # rmnc[j][mn] \/ zmns'[j][mn] # zmns[j][mn])
                  => (j = 0 /\ mn \in rz_slice)]_vars

C15_Witness ==
    /\ pc = "vcoords_w" /\ axis_log = << <<1, 1>> >>
    /\ Overwritten(rmnc, "rmnc") # {} /\ Overwritten(zmns, "zmns") # {}
    /\ lmns = AmpTable("lmns", vmecdata)

(* ================= properties of the surface's synthesis =============== *)
NativeModes == 0..(vmecdata.nmn - 1)
EvenModes == {mn \in NativeModes : vmecdata.xm[mn] % 2 = 0}
OddModes == {mn \in NativeModes : vmecdata.xm[mn] % 2 = 1}

\* the accumulator was zeroed and then received one addend from each mode of S
OnceEach(a, S) == a.init /\ a.terms = SetToBag(S)

\* C17: for every surface, after the even-parity call of vcoords_rz followed by
\* the odd-parity call (made as the orchestrator makes them), each native mode
\* has contributed exactly once to lam, lt and lz (even-m modes in the first
\* call, odd-m modes in the second, the accumulators zeroed only by the
\* even-parity call), the even-parity r/z outputs contain only the even-m modes
\* and the odd-parity r/z outputs only the odd-m modes.
C17_EachModeOnce ==
    [][(pc = "idle" /\ pc' = "idle" /\ vars' # vars /\ call'.fn = "vcoords_rz")
          => /\ (call'.nparity = 0)
                    => /\ OnceEach(lt', EvenModes) /\ OnceEach(lz', EvenModes)
                       /\ OnceEach(lam', EvenModes)
                       /\ DOMAIN r1'.modes = EvenModes /\ DOMAIN z1'.modes = EvenModes
             /\ (call'.nparity = 1)
                    => /\ lt'.init = lt.init /\ lt'.terms = lt.terms (+) SetToBag(OddModes)
                       /\ lz'.init = lz.init /\ lz'.terms = lz.terms (+) SetToBag(OddModes)
                       /\ lam'.init = lam.init
                       /\ lam'.terms = lam.terms (+) SetToBag(OddModes)
                       /\ DOMAIN rodd'.modes = OddModes /\ DOMAIN zodd'.modes = OddModes
                       /\ r1' = r1 /\ z1' = z1
             /\ (call'.nparity = 1 /\ call.fn = "vcoords_rz" /\ call.nparity = 0
                     /\ call.jrad = call'.jrad)
                    => /\ OnceEach(lt', NativeModes) /\ OnceEach(lz', NativeModes)
                       /\ OnceEach(lam', NativeModes)
                       /\ DOMAIN r1'.modes = EvenModes /\ DOMAIN z1'.modes = EvenModes]_vars

\* the even-parity and then the odd-parity call for surface 2 have returned
C17_Witness ==
    /\ pc = "idle" /\ call = [fn |-> "vcoords_rz", jrad |-> 2, nparity |-> 1]
    /\ vmecdata.mpol = 2 /\ vmecdata.ntor = 1
    /\ OnceEach(lt, NativeModes) /\ OnceEach(lz, NativeModes) /\ OnceEach(lam, NativeModes)
    /\ r1.init /\ \A mn \in EvenModes : r1.modes[mn].hi = <<"rmnc", 2, mn>>
    /\ rodd.init /\ \A mn \in OddModes : rodd.modes[mn].hi = <<"rmnc", 2, mn>>

(* ====================== properties of transpmn ========================= *)
NyquistModes == 0..(vmecdata.nmnnyq - 1)

\* C19: for every surface jrad and every Nyquist mode mn, transpmn assigns
\* pmns[mn] = bsubu[mn]/m when m # 0, otherwise -bsubv[mn]/n when n # 0,
\* otherwise 0, never dividing by a zero mode number; gpsi[jrad] and Ipsi[jrad]
\* are taken from the (m=0, n=0) mode's bsubv and bsubu coefficients, and no
\* index of gpsi or Ipsi other than jrad is written (they stay zero).
C19_Transpmn ==
    [][(call'.fn = "transpmn" /\ vars' # vars) =>
          LET j == call'.jrad
          IN  /\ j \in 1..(vmecdata.ns - 1)
              /\ DOMAIN pmns' = NyquistModes
              /\ \A mn \in NyquistModes :
                     LET m == vmecdata.xmnyq[mn]
                         n == vmecdata.xnnyq[mn]
                     IN  /\ (m # 0) => pmns'[mn] = <<"div", <<"bsubumnc", j, mn>>, m>>
                         /\ (m = 0 /\ n # 0)
                                => pmns'[mn] = <<"negdiv", <<"bsubvmnc", j, mn>>, n>>
                         /\ (m = 0 /\ n = 0) => pmns'[mn] = Zero
                         /\ (pmns'[mn] # Zero) => pmns'[mn][3] # 0
              /\ DOMAIN gpsi' = 0..(vmecdata.ns - 1) /\ DOMAIN Ipsi' = 0..(vmecdata.ns - 1)
              /\ gpsi'[j] = vmecdata.bsubvmnc00[j] /\ Ipsi'[j] = vmecdata.bsubumnc00[j]
              /\ \A i \in 0..(vmecdata.ns - 1) :
                     (i # j) => (gpsi'[i] = 0 /\ Ipsi'[i] = 0)]_vars

C19_Witness ==
    /\ call = [fn |-> "transpmn", jrad |-> 2, nparity |-> 0]
    /\ vmecdata.nnyq = 1 /\ vmecdata.nfp = 2
    /\ \E mn \in NyquistModes : pmns[mn][1] = "negdiv"
    /\ \E mn \in NyquistModes : pmns[mn][1] = "div"
    /\ gpsi[2] # 0 /\ gpsi[1] = 0

(* ====================== properties of boozerfun ======================== *)
\* the grid indices of the two poloidal-boundary rows
BoundaryRows == (0..(nv_boz - 1)) \cup ((nv_boz * (nu2_b - 1))..(nunv - 1))

\* C16: in boozerfun the half weight is applied exactly to the grid points of
\* the two poloidal-boundary rows: for every poloidal harmonic m in 0..mboz the
\* cos and sin table entries at grid indices 0..nv_boz-1 (theta = 0) and
\* nv_boz*(nu2_b-1)..nunv-1 (theta = pi) are multiplied by 0.5 exactly once and
\* the entries of every interior grid point keep weight 1, so each mode's basis
\* function carries weight 0.5 on boundary points and 1 elsewhere.
C16_HalfWeights ==
    (call.fn = "boozerfun") =>
        /\ DOMAIN trigmm.cosw = 0..(nunv - 1) /\ DOMAIN trigmm.sinw = 0..(nunv - 1)
        /\ \A lk \in 0..(nunv - 1) :
               /\ DOMAIN trigmm.cosw[lk] = 0..mboz /\ DOMAIN trigmm.sinw[lk] = 0..mboz
               /\ (lk \in BoundaryRows)
                      <=> (QEq(thgrid[lk], Q(0, 1)) \/ QEq(thgrid[lk], Q(1, 2)))
               /\ \A m \in 0..mboz :
                      /\ trigmm.cosw[lk][m] = IF lk \in BoundaryRows THEN 1 ELSE 0
                      /\ trigmm.sinw[lk][m] = IF lk \in BoundaryRows THEN 1 ELSE 0
               /\ \A mn \in 0..(mnboz - 1) :
                      /\ xmb[mn] \in 0..mboz
                      /\ trigmm.cosw[lk][xmb[mn]] = trigmm.sinw[lk][xmb[mn]]
                      /\ trigmm.cosw[lk][xmb[mn]] = IF lk \in BoundaryRows THEN 1 ELSE 0

C16_Witness ==
    /\ call.fn = "boozerfun" /\ mboz = 2 /\ nboz = 1
    /\ trigmm.cosw[0][2] = 1 /\ trigmm.sinw[nunv - 1][2] = 1
    /\ trigmm.cosw[nv_boz][0] = 0 /\ trigmm.sinw[nv_boz][1] = 0

(* ======================= properties of modbooz ========================= *)
\* C18: for every Boozer mode (modes with negative toroidal number included)
\* and each of the four sample angles, modbooz forms its cosine basis value
\* from the same table entries boozerfun uses for that mode: poloidal harmonic
\* m = xmb[mn], toroidal harmonic |xnb[mn]|/nfp, and the sign of xnb[mn] on the
\* sine-sine term; the harmonic index it uses is always in 0..nboz and equals
\* |n|.
C18_ModboozBasis ==
    (call.fn = "modbooz") =>
        \A angles \in 0..3 : \A mn \in 0..(mnboz - 1) :
            LET c == bmodb[angles][mn]
                b == boozerfun_cost(mn)
            IN  /\ c.m = b.m /\ c.sgn = b.sgn
                /\ c.pol.assigned /\ c.pol.harm = xmb[mn]
                /\ c.n \in 0..nboz /\ c.n = b.n
                /\ c.tor.assigned /\ c.tor.harm = b.n

====
